---- MODULE Spec2Model ----
(***************************************************************************)
(* A model of the groq-go chat completion client (src/client.go).          *)
(*                                                                         *)
(* A Go string is a sequence of character tokens; "0xFF" stands for a byte *)
(* that is not valid UTF-8 and "U+FFFD" for the Unicode replacement rune.  *)
(* A float64 is a record: NaN, or a number of tenths.  A JSON document is  *)
(* kept as its structure (keys in order, arrays) with every scalar in its  *)
(* encoded form, as encoding/json writes it.                               *)
(***************************************************************************)
EXTENDS Integers, Sequences, FiniteSets, TLC

VARIABLES
    client,      \* the Client struct: apiKey, httpClient, chatCompletionURL
    env,         \* the process environment variable GROQ_API_KEY
    pc,          \* per goroutine: where it stands
    given,       \* per goroutine: the arguments the caller passed to ChatCompletion
    callerMsgs,  \* per goroutine: the caller's message slice (shared backing array)
    body,        \* per goroutine: the local RequestBody
    jsonData,    \* per goroutine: the result of json.Marshal(body)
    req,         \* per goroutine: the *http.Request built
    resp,        \* per goroutine: the *http.Response of httpClient.Do
    completion,  \* per goroutine: the local ChatCompletionResponse
    ret,         \* per goroutine: the pair the call returned
    sent,        \* per goroutine: requests handed to the transport by this call
    closes,      \* per goroutine: calls of resp.Body.Close by this call
    decoded,     \* per goroutine: whether the decoder read the response body
    pendingKey,  \* per goroutine: the argument of the SetAPIKey call in progress
    snapshot,    \* per goroutine: the client as it was when the call began
    ctor,        \* the key NewClient was given and the environment it saw
    setCalled    \* whether SetAPIKey has been called since construction

vars == <<client, env, pc, given, callerMsgs, body, jsonData, req, resp,
          completion, ret, sent, closes, decoded, pendingKey, snapshot,
          ctor, setCalled>>

frame == <<given, callerMsgs, body, jsonData, req, resp, completion, ret,
           sent, closes, decoded, snapshot>>

----------------------------------------------------------------------------
(* Bounds of the model. *)

MaxMsgs == 2
MaxOpts == 2

\* The goroutines that share the client when more than one uses it.
Procs == {"g1", "g2"}

----------------------------------------------------------------------------
(* Values. *)

RECURSIVE SeqsUpTo(_, _)
SeqsUpTo(S, n) ==
    IF n = 0 THEN {<<>>}
    ELSE LET shorter == SeqsUpTo(S, n - 1)
         IN  shorter \cup {Append(s, e) : s \in shorter, e \in S}

Num(t) == [nan |-> FALSE, tenths |-> t]
NaN == [nan |-> TRUE, tenths |-> 0]

NoString == [nil |-> TRUE, s |-> <<>>]

NoErr == [kind |-> "nil", code |-> 0]
Err(k) == [kind |-> k, code |-> 0]

Slice(elems) == [nil |-> FALSE, elems |-> elems]
NilSlice == [nil |-> TRUE, elems |-> <<>>]

StatusOK == 200

DefaultURL == "https://api.groq.com/openai/v1/chat/completions"

----------------------------------------------------------------------------
(* type Message, type RequestBody and the four adjustments. *)

Message(role, content) == [Role |-> role, Content |-> content]

DefaultBody(messages) ==
    [Messages    |-> messages,
     Model       |-> <<"l", "l", "a", "m", "a", "3", "-", "8", "b", "-",
                       "8", "1", "9", "2">>,
     Temperature |-> Num(10),
     MaxTokens   |-> 1024,
     TopP        |-> Num(10),
     Stream      |-> FALSE,
     Stop        |-> NoString]

WithModel(model) == [field |-> "Model", arg |-> model]
WithTemperature(temperature) == [field |-> "Temperature", arg |-> temperature]
WithMaxTokens(maxTokens) == [field |-> "MaxTokens", arg |-> maxTokens]
WithTopP(topP) == [field |-> "TopP", arg |-> topP]

\* ApplyOption with WithTopP also writing Temperature.
ApplyOptionTwoFields(rb, option) ==
    CASE option.field = "Model"       -> [rb EXCEPT !.Model = option.arg]
      [] option.field = "Temperature" -> [rb EXCEPT !.Temperature = option.arg]
      [] option.field = "MaxTokens"   -> [rb EXCEPT !.MaxTokens = option.arg]
      [] option.field = "TopP"        -> [rb EXCEPT !.TopP = option.arg,
                                                    !.Temperature = option.arg]

\* option(&body): the closure assigns its argument to its one field.
ApplyOption(rb, option) ==
    CASE option.field = "Model"       -> [rb EXCEPT !.Model = option.arg]
      [] option.field = "Temperature" -> [rb EXCEPT !.Temperature = option.arg]
      [] option.field = "MaxTokens"   -> [rb EXCEPT !.MaxTokens = option.arg]
      [] option.field = "TopP"        -> [rb EXCEPT !.TopP = option.arg]

\* ApplyOptions running the options last to first.
RECURSIVE ApplyOptionsBackwards(_, _)
ApplyOptionsBackwards(rb, options) ==
    IF options = <<>> THEN rb
    ELSE ApplyOption(ApplyOptionsBackwards(rb, Tail(options)), Head(options))

\* for _, option := range options { option(&body) }
RECURSIVE ApplyOptions(_, _)
ApplyOptions(rb, options) ==
    IF options = <<>> THEN rb
    ELSE ApplyOptions(ApplyOption(rb, Head(options)), Tail(options))

----------------------------------------------------------------------------
(* json.Marshal(body). *)

\* One character of a Go string as encoding/json writes it inside quotes.
EncodeChar(c) ==
    CASE c = "\""   -> "\\\""
      [] c = "<"    -> "\\u003c"
      [] c = "0xFF" -> "\\ufffd"
      [] OTHER      -> c

EncodeString(s) == [i \in 1..Len(s) |-> EncodeChar(s[i])]

\* strconv formatting of a finite float64, shortest form.
FormatFloat(f) ==
    IF f.tenths % 10 = 0 THEN ToString(f.tenths \div 10)
    ELSE ToString(f.tenths \div 10) \o "." \o ToString(f.tenths % 10)

EncodeMessage(m) ==
    [role |-> EncodeString(m.Role), content |-> EncodeString(m.Content)]

\* EncodeMessages writing the array last to first.
EncodeMessagesBackwards(ms) ==
    IF ms.nil THEN [null |-> TRUE, array |-> <<>>]
    ELSE [null |-> FALSE,
          array |-> [i \in 1..Len(ms.elems) |->
                        EncodeMessage(ms.elems[Len(ms.elems) + 1 - i])]]

\* A nil slice is written as null, any other slice as an array.
EncodeMessages(ms) ==
    IF ms.nil THEN [null |-> TRUE, array |-> <<>>]
    ELSE [null |-> FALSE,
          array |-> [i \in 1..Len(ms.elems) |-> EncodeMessage(ms.elems[i])]]

\* The struct's fields in declaration order under their json names;
\* "stop" is omitempty.  A NaN makes Marshal fail.
Marshal(rb) ==
    IF rb.Temperature.nan \/ rb.TopP.nan
    THEN [ok |-> FALSE, err |-> Err("marshal")]
    ELSE [ok |-> TRUE, err |-> NoErr,
          keys |-> <<"messages", "model", "temperature", "max_tokens",
                     "top_p", "stream">>
                   \o (IF rb.Stop.nil THEN <<>> ELSE <<"stop">>),
          messages |-> EncodeMessages(rb.Messages),
          model |-> EncodeString(rb.Model),
          temperature |-> FormatFloat(rb.Temperature),
          max_tokens |-> ToString(rb.MaxTokens),
          top_p |-> FormatFloat(rb.TopP),
          stream |-> IF rb.Stream THEN "true" ELSE "false",
          stop |-> IF rb.Stop.nil THEN <<>> ELSE EncodeString(rb.Stop.s)]

\* No payload: the value of jsonData where none has been made.
NoData == [ok |-> FALSE, err |-> NoErr]

----------------------------------------------------------------------------
(* JSON values of a response body, and json.NewDecoder(resp.Body).Decode   *)
(* into a ChatCompletionResponse.  A number is whole + tenth/10.           *)

JStr(s) == [t |-> "str", v |-> s]
JNum(whole, tenth) == [t |-> "num", whole |-> whole, tenth |-> tenth]
JNull == [t |-> "null"]
JArr(elems) == [t |-> "arr", v |-> elems]
JObj(members) == [t |-> "obj", v |-> members]

\* The member of object j for a struct field named k; a field with no
\* member in the object is not touched.
JAbsent == [t |-> "absent"]
Member(j, k) == IF k \in DOMAIN j.v THEN j.v[k] ELSE JAbsent
Untouched(j) == j.t \in {"null", "absent"}

Res(v, e) == [v |-> v, e |-> e]

\* DecString with the store left out.
DecStringDropped(j, old) ==
    CASE j.t = "str"  -> Res(old, FALSE)
      [] Untouched(j)  -> Res(old, FALSE)
      [] OTHER        -> Res(old, TRUE)

\* A value for a string field: a string is stored, null leaves the field,
\* anything else is a type error that leaves the field.
DecString(j, old) ==
    CASE j.t = "str"  -> Res(j.v, FALSE)
      [] Untouched(j)  -> Res(old, FALSE)
      [] OTHER        -> Res(old, TRUE)

\* A value for an int field: the literal must parse as an integer.
DecInt(j, old) ==
    CASE j.t = "num" /\ j.tenth = 0 -> Res(j.whole, FALSE)
      [] Untouched(j)                -> Res(old, FALSE)
      [] OTHER                      -> Res(old, TRUE)

\* A value for a float64 field.
DecFloat(j, old) ==
    CASE j.t = "num"  -> Res(Num(10 * j.whole + j.tenth), FALSE)
      [] Untouched(j)  -> Res(old, FALSE)
      [] OTHER        -> Res(old, TRUE)

\* A value for an interface{} field: any value is stored as it is.
DecAny(j, old) == IF j.t = "absent" THEN Res(old, FALSE) ELSE Res(j, FALSE)


ZeroMessage == Message("", "")

DecMessage(j, old) ==
    CASE j.t = "obj" ->
            LET r == DecString(Member(j, "role"), old.Role)
                c == DecString(Member(j, "content"), old.Content)
            IN  Res(Message(r.v, c.v), r.e \/ c.e)
      [] Untouched(j)  -> Res(old, FALSE)
      [] OTHER        -> Res(old, TRUE)

ZeroChoice ==
    [Index |-> 0, Message |-> ZeroMessage, Logprobs |-> JNull,
     FinishReason |-> ""]

DecChoice(j, old) ==
    CASE j.t = "obj" ->
            LET i == DecInt(Member(j, "index"), old.Index)
                m == DecMessage(Member(j, "message"), old.Message)
                l == DecAny(Member(j, "logprobs"), old.Logprobs)
                f == DecString(Member(j, "finish_reason"), old.FinishReason)
            IN  Res([Index |-> i.v, Message |-> m.v, Logprobs |-> l.v,
                     FinishReason |-> f.v],
                    i.e \/ m.e \/ l.e \/ f.e)
      [] Untouched(j)  -> Res(old, FALSE)
      [] OTHER        -> Res(old, TRUE)

\* A value for the slice field: each array element is decoded into a zeroed
\* element, in order; null empties the slice.
DecChoices(j, old) ==
    CASE j.t = "arr" ->
            Res([i \in 1..Len(j.v) |-> DecChoice(j.v[i], ZeroChoice).v],
                \E i \in 1..Len(j.v) : DecChoice(j.v[i], ZeroChoice).e)
      [] j.t = "null"   -> Res(<<>>, FALSE)
      [] j.t = "absent" -> Res(old, FALSE)
      [] OTHER        -> Res(old, TRUE)

ZeroUsage ==
    [QueueTime |-> Num(0), PromptTokens |-> 0, PromptTime |-> Num(0),
     CompletionTokens |-> 0, CompletionTime |-> Num(0), TotalTokens |-> 0,
     TotalTime |-> Num(0)]

DecUsage(j, old) ==
    CASE j.t = "obj" ->
            LET qt == DecFloat(Member(j, "queue_time"), old.QueueTime)
                pn == DecInt(Member(j, "prompt_tokens"), old.PromptTokens)
                pt == DecFloat(Member(j, "prompt_time"), old.PromptTime)
                cn == DecInt(Member(j, "completion_tokens"), old.CompletionTokens)
                ct == DecFloat(Member(j, "completion_time"), old.CompletionTime)
                tn == DecInt(Member(j, "total_tokens"), old.TotalTokens)
                tt == DecFloat(Member(j, "total_time"), old.TotalTime)
            IN  Res([QueueTime |-> qt.v, PromptTokens |-> pn.v,
                     PromptTime |-> pt.v, CompletionTokens |-> cn.v,
                     CompletionTime |-> ct.v, TotalTokens |-> tn.v,
                     TotalTime |-> tt.v],
                    qt.e \/ pn.e \/ pt.e \/ cn.e \/ ct.e \/ tn.e \/ tt.e)
      [] Untouched(j)  -> Res(old, FALSE)
      [] OTHER        -> Res(old, TRUE)

ZeroXGroq == [ID |-> ""]

DecXGroq(j, old) ==
    CASE j.t = "obj" ->
            LET i == DecString(Member(j, "id"), old.ID)
            IN  Res([ID |-> i.v], i.e)
      [] Untouched(j)  -> Res(old, FALSE)
      [] OTHER        -> Res(old, TRUE)

\* completion := ChatCompletionResponse{}
ZeroCompletion ==
    [ID |-> "", Object |-> "", Created |-> 0, Model |-> "",
     Choices |-> <<>>, Usage |-> ZeroUsage, SystemFingerprint |-> "",
     XGroq |-> ZeroXGroq]

DecCompletion(j, old) ==
    CASE j.t = "obj" ->
            LET id == DecString(Member(j, "id"), old.ID)
                ob == DecString(Member(j, "object"), old.Object)
                cr == DecInt(Member(j, "created"), old.Created)
                mo == DecString(Member(j, "model"), old.Model)
                ch == DecChoices(Member(j, "choices"), old.Choices)
                us == DecUsage(Member(j, "usage"), old.Usage)
                sf == DecString(Member(j, "system_fingerprint"), old.SystemFingerprint)
                xg == DecXGroq(Member(j, "x_groq"), old.XGroq)
            IN  Res([ID |-> id.v, Object |-> ob.v, Created |-> cr.v,
                     Model |-> mo.v, Choices |-> ch.v, Usage |-> us.v,
                     SystemFingerprint |-> sf.v, XGroq |-> xg.v],
                    id.e \/ ob.e \/ cr.e \/ mo.e \/ ch.e \/ us.e \/ sf.e
                         \/ xg.e)
      [] Untouched(j)  -> Res(old, FALSE)
      [] OTHER        -> Res(old, TRUE)

\* A response body as the transport delivers it: text that is one JSON
\* value, or text that is not JSON at all.
JsonText(j) == [syntax |-> TRUE, json |-> j]
NotJson == [syntax |-> FALSE, json |-> JNull]

\* Decode: a syntax error stores nothing; a type error is reported after
\* the rest of the value has been stored.
Decode(text, into) ==
    IF ~text.syntax THEN [v |-> into, err |-> Err("syntax")]
    ELSE LET r == DecCompletion(text.json, into)
         IN  [v |-> r.v, err |-> IF r.e THEN Err("type") ELSE NoErr]

----------------------------------------------------------------------------
(* type Client, NewClient. *)

\* A Go string value is two words, a data pointer and a length; len names
\* the string whose length it is.  The two differ only in a torn value.
StringHeader(str) == [data |-> str, len |-> str]

GoString(h) == IF h.data = h.len THEN h.data ELSE "<torn>"

\* NewClient letting the environment win over the key it is given.
NewClientEnvFirst(httpClient, apiKey, environment) ==
    [apiKey            |-> StringHeader(IF environment = "" THEN apiKey
                                        ELSE environment),
     httpClient        |-> IF httpClient = "nil" THEN "default"
                           ELSE httpClient,
     chatCompletionURL |-> DefaultURL]

NewClient(httpClient, apiKey, environment) ==
    [apiKey            |-> StringHeader(IF apiKey = "" THEN environment
                                        ELSE apiKey),
     httpClient        |-> IF httpClient = "nil" THEN "default"
                           ELSE httpClient,
     chatCompletionURL |-> DefaultURL]

NoClient == NewClient("nil", "", "")

\* url.Parse inside http.NewRequest rejects a malformed escape.
BadURL == "http://%zz"
ParsesAsURL(u) == u # BadURL

\* The transport cannot send to a URL without a scheme.
HasScheme(u) == u # ""

----------------------------------------------------------------------------
(* The frame of one ChatCompletion call. *)

NoGiven == [messages |-> NilSlice, options |-> <<>>]
NoBody == [unset |-> TRUE]
NoReq ==
    [method |-> "", url |-> "", body |-> NoData, contentType |-> "",
     authorization |-> ""]
NoResp == [present |-> FALSE]
NoCompletion == [unset |-> TRUE]
NilResponse == [nil |-> TRUE]
Pointer(c) == [nil |-> FALSE, val |-> c]
NoRet == [resp |-> NilResponse, err |-> NoErr]
NoPending == [key |-> "", todo |-> {}]

StatusError(code) == [kind |-> "status", code |-> code]

\* RunDeferred with the defer statement missing.
RunDeferredMissing(n, registered) == n

\* defer resp.Body.Close(): runs once when the function returns, if the
\* statement was reached.
RunDeferred(n, registered) == IF registered THEN n + 1 ELSE n

\* return r, e
Return(p, r, e) ==
    /\ pc' = [pc EXCEPT ![p] = "done"]
    /\ ret' = [ret EXCEPT ![p] = [resp |-> r, err |-> e]]
    /\ closes' = [closes EXCEPT ![p] = RunDeferred(@, resp[p].present)]

----------------------------------------------------------------------------
(* func (c *Client) ChatCompletion, one action per statement group. *)

\* Entry and the RequestBody literal.  body.Messages is the caller's slice.
Call(p, messages, options) ==
    /\ pc[p] = "idle"
    /\ pc' = [pc EXCEPT ![p] = "options"]
    /\ given' = [given EXCEPT ![p] = [messages |-> messages,
                                      options |-> options]]
    /\ callerMsgs' = [callerMsgs EXCEPT ![p] = messages]
    /\ body' = [body EXCEPT ![p] = DefaultBody(messages)]
    /\ snapshot' = [snapshot EXCEPT ![p] = client]
    /\ UNCHANGED <<client, env, jsonData, req, resp, completion, ret, sent,
                   closes, decoded, pendingKey, ctor, setCalled>>

\* The loop over the options.  A write through body.Messages would land in
\* the caller's backing array.
RunOptions(p) ==
    /\ pc[p] = "options"
    /\ pc' = [pc EXCEPT ![p] = "marshal"]
    /\ body' = [body EXCEPT ![p] = ApplyOptions(@, given[p].options)]
    /\ callerMsgs' = [callerMsgs EXCEPT ![p] = body'[p].Messages]
    /\ UNCHANGED <<client, env, given, jsonData, req, resp, completion, ret,
                   sent, closes, decoded, pendingKey, snapshot, ctor,
                   setCalled>>

\* jsonData, err := json.Marshal(body); if err != nil { return nil, err }
MarshalBody(p) ==
    /\ pc[p] = "marshal"
    /\ LET m == Marshal(body[p])
       IN  IF m.ok
           THEN /\ jsonData' = [jsonData EXCEPT ![p] = m]
                /\ pc' = [pc EXCEPT ![p] = "newreq"]
                /\ UNCHANGED <<ret, closes>>
           ELSE /\ Return(p, NilResponse, m.err)
                /\ UNCHANGED jsonData
    /\ UNCHANGED <<client, env, given, callerMsgs, body, req, resp,
                   completion, sent, decoded, pendingKey, snapshot, ctor,
                   setCalled>>

\* req, err := http.NewRequest("POST", c.chatCompletionURL, ...)
NewRequest(p) ==
    /\ pc[p] = "newreq"
    /\ IF ParsesAsURL(client.chatCompletionURL)
       THEN /\ req' = [req EXCEPT ![p] =
                          [NoReq EXCEPT !.method = "POST",
                                        !.url = client.chatCompletionURL,
                                        !.body = jsonData[p]]]
            /\ pc' = [pc EXCEPT ![p] = "headers"]
            /\ UNCHANGED <<ret, closes>>
       ELSE /\ Return(p, NilResponse, Err("url"))
            /\ UNCHANGED req
    /\ UNCHANGED <<client, env, given, callerMsgs, body, jsonData, resp,
                   completion, sent, decoded, pendingKey, snapshot, ctor,
                   setCalled>>

\* The two req.Header.Set calls; the second loads c.apiKey.
SetHeaders(p) ==
    /\ pc[p] = "headers"
    /\ req' = [req EXCEPT ![p].contentType = "application/json",
                          ![p].authorization =
                              "Bearer " \o GoString(client.apiKey)]
    /\ pc' = [pc EXCEPT ![p] = "do"]
    /\ UNCHANGED <<client, env, given, callerMsgs, body, jsonData, resp,
                   completion, ret, sent, closes, decoded, pendingKey,
                   snapshot, ctor, setCalled>>

\* What httpClient.Do can give back.
TransportError == [err |-> TRUE]
Response(status, text) == [err |-> FALSE, StatusCode |-> status, Body |-> text]

\* RoundTrip sending the request a second time.
RoundTripRetried(log, r) == Append(Append(log, r), r)

\* c.httpClient.Do(req) hands the request to the transport, once.
RoundTrip(log, r) == Append(log, r)

\* resp, err := c.httpClient.Do(req); if err != nil { return nil, err }
\* defer resp.Body.Close()
Do(p, outcome) ==
    /\ pc[p] = "do"
    /\ HasScheme(req[p].url) \/ outcome.err
    /\ sent' = [sent EXCEPT ![p] = RoundTrip(@, req[p])]
    /\ IF outcome.err
       THEN /\ Return(p, NilResponse, Err("transport"))
            /\ UNCHANGED resp
       ELSE /\ resp' = [resp EXCEPT ![p] =
                           [present |-> TRUE,
                            StatusCode |-> outcome.StatusCode,
                            Body |-> outcome.Body]]
            /\ pc' = [pc EXCEPT ![p] = "status"]
            /\ UNCHANGED <<ret, closes>>
    /\ UNCHANGED <<client, env, given, callerMsgs, body, jsonData, req,
                   completion, decoded, pendingKey, snapshot, ctor,
                   setCalled>>

\* StatusIsOK taking every 2xx code for success.
StatusIs2xx(code) == code \in 200..299

\* resp.StatusCode != http.StatusOK, negated.
StatusIsOK(code) == code = StatusOK

\* if resp.StatusCode != http.StatusOK { return nil, fmt.Errorf(...) }
CheckStatus(p) ==
    /\ pc[p] = "status"
    /\ IF ~StatusIsOK(resp[p].StatusCode)
       THEN Return(p, NilResponse, StatusError(resp[p].StatusCode))
       ELSE /\ pc' = [pc EXCEPT ![p] = "decode"]
            /\ UNCHANGED <<ret, closes>>
    /\ UNCHANGED <<client, env, given, callerMsgs, body, jsonData, req, resp,
                   completion, sent, decoded, pendingKey, snapshot, ctor,
                   setCalled>>

\* DecodeResult handing out the completion together with the error.
DecodeResultPartial(d) == [resp |-> Pointer(d.v), err |-> d.err]

\* if err != nil { return nil, err }; return &completion, nil
DecodeResult(d) ==
    IF d.err # NoErr THEN [resp |-> NilResponse, err |-> d.err]
    ELSE [resp |-> Pointer(d.v), err |-> NoErr]

\* completion := ChatCompletionResponse{}; err = Decode(&completion);
\* if err != nil { return nil, err }; return &completion, nil
DecodeBody(p) ==
    /\ pc[p] = "decode"
    /\ LET d == Decode(resp[p].Body, ZeroCompletion)
       IN  /\ completion' = [completion EXCEPT ![p] = d.v]
           /\ decoded' = [decoded EXCEPT ![p] = TRUE]
           /\ Return(p, DecodeResult(d).resp, DecodeResult(d).err)
    /\ UNCHANGED <<client, env, given, callerMsgs, body, jsonData, req, resp,
                   sent, pendingKey, snapshot, ctor, setCalled>>

\* The caller takes the results; the frame is gone.
Finish(p) ==
    /\ pc[p] = "done"
    /\ pc' = [pc EXCEPT ![p] = "idle"]
    /\ given' = [given EXCEPT ![p] = NoGiven]
    /\ callerMsgs' = [callerMsgs EXCEPT ![p] = NilSlice]
    /\ body' = [body EXCEPT ![p] = NoBody]
    /\ jsonData' = [jsonData EXCEPT ![p] = NoData]
    /\ req' = [req EXCEPT ![p] = NoReq]
    /\ resp' = [resp EXCEPT ![p] = NoResp]
    /\ completion' = [completion EXCEPT ![p] = NoCompletion]
    /\ ret' = [ret EXCEPT ![p] = NoRet]
    /\ sent' = [sent EXCEPT ![p] = <<>>]
    /\ closes' = [closes EXCEPT ![p] = 0]
    /\ decoded' = [decoded EXCEPT ![p] = FALSE]
    /\ snapshot' = [snapshot EXCEPT ![p] = NoClient]
    /\ UNCHANGED <<client, env, pendingKey, ctor, setCalled>>

----------------------------------------------------------------------------
(* func (c *Client) SetAPIKey, the environment, the test's URL override. *)

\* SetAPIKey(apiKey) is entered.
SetAPIKey(p, apiKey) ==
    /\ pc[p] = "idle"
    /\ pc' = [pc EXCEPT ![p] = "setkey"]
    /\ pendingKey' = [pendingKey EXCEPT ![p] =
                         [key |-> apiKey, todo |-> {"data", "len"}]]
    /\ setCalled' = TRUE
    /\ UNCHANGED <<client, env, ctor>>
    /\ UNCHANGED frame

\* c.apiKey = apiKey: the assignment stores the two words of the string,
\* in an order the compiler picks, with no synchronisation.
StoreWord(p, w) ==
    /\ pc[p] = "setkey"
    /\ w \in pendingKey[p].todo
    /\ client' = [client EXCEPT !.apiKey[w] = pendingKey[p].key]
    /\ LET left == pendingKey[p].todo \ {w}
       IN  /\ pendingKey' = [pendingKey EXCEPT ![p] =
                                IF left = {} THEN NoPending
                                ELSE [@ EXCEPT !.todo = left]]
           /\ pc' = [pc EXCEPT ![p] = IF left = {} THEN "idle" ELSE "setkey"]
    /\ UNCHANGED <<env, ctor, setCalled>>
    /\ UNCHANGED frame

\* os.Setenv("GROQ_API_KEY", value) somewhere in the process.
Setenv(value) ==
    /\ env # value
    /\ env' = value
    /\ UNCHANGED <<client, pc, pendingKey, ctor, setCalled>>
    /\ UNCHANGED frame

\* c.chatCompletionURL = ts.URL, as the package's test does before it calls.
OverrideURL(u) ==
    /\ \A p \in DOMAIN pc : pc[p] = "idle"
    /\ client.chatCompletionURL # u
    /\ client' = [client EXCEPT !.chatCompletionURL = u]
    /\ UNCHANGED <<env, pc, pendingKey, ctor, setCalled>>
    /\ UNCHANGED frame

----------------------------------------------------------------------------
(* Inputs. *)

\* The message of the package's test, one with characters that need
\* escaping, one with a byte that is not valid UTF-8.
MessagePool ==
    {Message(<<"u">>, <<"H", "i">>),
     Message(<<"s">>, <<"\"", "<">>),
     Message(<<"u">>, <<"0xFF">>)}

MessageInputs ==
    {NilSlice} \cup {Slice(ms) : ms \in SeqsUpTo(MessagePool, MaxMsgs)}

TestMessages == Slice(<<Message(<<"u">>, <<"H", "i">>)>>)

OptionPool ==
    {WithModel(<<"m", "x">>), WithModel(<<"<", "0xFF">>),
     WithTemperature(Num(5)), WithTemperature(Num(20)),
     WithTemperature(NaN),
     WithMaxTokens(16), WithMaxTokens(0),
     WithTopP(Num(9)), WithTopP(Num(0))}

OptionInputs == SeqsUpTo(OptionPool, MaxOpts)

OneOfEach ==
    {WithModel(<<"m", "x">>), WithTemperature(Num(5)), WithMaxTokens(16),
     WithTopP(Num(9))}

FewOptions == {<<>>, <<WithTemperature(NaN)>>}

\* The body the package's test serves.
TestChoice ==
    [index |-> JNum(0, 0),
     message |-> JObj([role |-> JStr("user"),
                       content |-> JStr("Hello, world!")]),
     logprobs |-> JNull,
     finish_reason |-> JStr("length")]

OtherChoice ==
    [index |-> JNum(1, 0),
     message |-> JObj([role |-> JStr("assistant"), content |-> JStr("Bye")]),
     finish_reason |-> JStr("stop")]

TestUsage ==
    [queue_time |-> JNum(0, 1), prompt_tokens |-> JNum(5, 0),
     prompt_time |-> JNum(0, 2), completion_tokens |-> JNum(10, 0),
     completion_time |-> JNum(0, 3), total_tokens |-> JNum(15, 0),
     total_time |-> JNum(0, 6)]

TestBody ==
    [id |-> JStr("123"), object |-> JStr("text"),
     created |-> JNum(1643723400, 0), model |-> JStr("llama3-8b-8192"),
     choices |-> JArr(<<JObj(TestChoice)>>), usage |-> JObj(TestUsage),
     system_fingerprint |-> JStr("1234567890"),
     x_groq |-> JObj([id |-> JStr("123")])]

Without(members, k) == [x \in DOMAIN members \ {k} |-> members[x]]
With(members, k, j) ==
    [x \in DOMAIN members \cup {k} |-> IF x = k THEN j ELSE members[x]]

\* Objects of the response's shape: the test's body, with a member left
\* out or null, with more choices, with members the struct does not have.
ShapedObjects ==
    {TestBody, Without(TestBody, "id"), With(TestBody, "extra", JStr("x"))}
    \cup {Without(TestBody, k) : k \in DOMAIN TestBody}
    \cup {With(TestBody, k, JNull) : k \in DOMAIN TestBody}
    \cup {With(TestBody, "choices", JArr(cs)) :
            cs \in {<<>>,
                    <<JObj(TestChoice), JObj(OtherChoice)>>,
                    <<JObj(OtherChoice), JObj(TestChoice)>>,
                    <<JObj(Without(TestChoice, "finish_reason"))>>,
                    <<JObj(Without(TestChoice, "message"))>>}}
    \cup {Without(Without(TestBody, "choices"), "created"),
          With(Without(TestBody, "id"), "choices",
               JArr(<<JObj(OtherChoice), JObj(TestChoice)>>))}

\* Objects that are JSON but not of the response's shape.
MisshapedObjects ==
    {With(TestBody, "id", JNum(123, 0)),
     With(TestBody, "created", JStr("now")),
     With(TestBody, "created", JNum(1, 5)),
     With(TestBody, "choices", JStr("none")),
     With(TestBody, "choices",
          JArr(<<JObj(With(TestChoice, "finish_reason", JNum(1, 0)))>>)),
     With(TestBody, "usage",
          JObj(With(TestUsage, "total_tokens", JNum(1, 5)))),
     With(TestBody, "x_groq", JArr(<<>>))}

BodyInputs ==
    {NotJson, JsonText(JNull), JsonText(JArr(<<>>)), JsonText(JStr("ok"))}
    \cup {JsonText(JObj(o)) : o \in ShapedObjects \cup MisshapedObjects}
    \cup {JsonText(JObj(<<>>))}

StatusInputs == {200, 201, 204, 404, 500}

OutcomeInputs ==
    {TransportError}
    \cup {Response(st, b) : st \in StatusInputs, b \in BodyInputs}

FewOutcomes ==
    {TransportError, Response(500, NotJson), Response(200, NotJson),
     Response(200, JsonText(JObj(TestBody)))}

URLInputs == {DefaultURL, "http://127.0.0.1:4242", "", BadURL}

KeyInputs == {"", "k1"}
EnvInputs == {"", "e1", "e2"}
NewKeys == {"k2"}

----------------------------------------------------------------------------
(* Specifications. *)

InitFrame(P) ==
    /\ pc = [p \in P |-> "idle"]
    /\ given = [p \in P |-> NoGiven]
    /\ callerMsgs = [p \in P |-> NilSlice]
    /\ body = [p \in P |-> NoBody]
    /\ jsonData = [p \in P |-> NoData]
    /\ req = [p \in P |-> NoReq]
    /\ resp = [p \in P |-> NoResp]
    /\ completion = [p \in P |-> NoCompletion]
    /\ ret = [p \in P |-> NoRet]
    /\ sent = [p \in P |-> <<>>]
    /\ closes = [p \in P |-> 0]
    /\ decoded = [p \in P |-> FALSE]
    /\ pendingKey = [p \in P |-> NoPending]
    /\ snapshot = [p \in P |-> NoClient]
    /\ setCalled = FALSE

\* c := NewClient(ts.Client(), "test-key"), as in the package's test.
Init ==
    /\ env = ""
    /\ ctor = [httpClient |-> "test", apiKey |-> "k1", env |-> env]
    /\ client = NewClient(ctor.httpClient, ctor.apiKey, ctor.env)
    /\ InitFrame({"g1"})

\* NewClient with or without a key, under any environment.
InitAny ==
    /\ env \in EnvInputs
    /\ \E k \in KeyInputs :
          ctor = [httpClient |-> "nil", apiKey |-> k, env |-> env]
    /\ client = NewClient(ctor.httpClient, ctor.apiKey, ctor.env)
    /\ InitFrame(Procs)

Steps(p) ==
    \/ RunOptions(p)
    \/ MarshalBody(p)
    \/ NewRequest(p)
    \/ SetHeaders(p)
    \/ CheckStatus(p)
    \/ DecodeBody(p)
    \/ Finish(p)

\* One goroutine, every response the transport can give.
Next ==
    \/ \E ms \in {TestMessages, NilSlice}, os \in FewOptions :
          Call("g1", ms, os)
    \/ Steps("g1")
    \/ \E o \in OutcomeInputs : Do("g1", o)
    \/ \E u \in URLInputs : OverrideURL(u)

Spec == Init /\ [][Next]_vars

\* One goroutine, every sequence of adjustments.
NextOpts ==
    \/ \E os \in OptionInputs : Call("g1", TestMessages, os)
    \/ Steps("g1")
    \/ \E o \in FewOutcomes : Do("g1", o)

SpecOpts == Init /\ [][NextOpts]_vars

\* One goroutine, every message sequence.
NextMsgs ==
    \/ \E ms \in MessageInputs, os \in SeqsUpTo(OneOfEach, MaxOpts) :
          Call("g1", ms, os)
    \/ Steps("g1")
    \/ \E o \in FewOutcomes : Do("g1", o)

SpecMsgs == Init /\ [][NextMsgs]_vars

\* Goroutines sharing one client, with SetAPIKey and the environment.
NextConc ==
    \/ \E p \in Procs, os \in FewOptions : Call(p, TestMessages, os)
    \/ \E p \in Procs : Steps(p)
    \/ \E p \in Procs, o \in FewOutcomes : Do(p, o)
    \/ \E p \in Procs, k \in NewKeys : SetAPIKey(p, k)
    \/ \E p \in Procs, w \in {"data", "len"} : StoreWord(p, w)
    \/ \E v \in EnvInputs : Setenv(v)

SpecConc == InitAny /\ [][NextConc]_vars

----------------------------------------------------------------------------
(* Properties. *)

Goroutines == DOMAIN pc

Returned(p) == pc[p] = "done"
GotResponse(p) == Returned(p) /\ resp[p].present

\* A JSON value of the shape of a ChatCompletionResponse: every member the
\* struct has a field for is of that field's JSON type, or null.
FitsString(j) == j.t \in {"str", "null", "absent"}
FitsInt(j) == j.t \in {"null", "absent"} \/ (j.t = "num" /\ j.tenth = 0)
FitsFloat(j) == j.t \in {"num", "null", "absent"}
FitsMessage(j) ==
    \/ Untouched(j)
    \/ /\ j.t = "obj"
       /\ FitsString(Member(j, "role"))
       /\ FitsString(Member(j, "content"))
FitsChoice(j) ==
    \/ Untouched(j)
    \/ /\ j.t = "obj"
       /\ FitsInt(Member(j, "index"))
       /\ FitsMessage(Member(j, "message"))
       /\ FitsString(Member(j, "finish_reason"))
FitsChoices(j) ==
    \/ Untouched(j)
    \/ j.t = "arr" /\ \A i \in 1..Len(j.v) : FitsChoice(j.v[i])
FitsUsage(j) ==
    \/ Untouched(j)
    \/ /\ j.t = "obj"
       /\ \A k \in {"queue_time", "prompt_time", "completion_time",
                    "total_time"} : FitsFloat(Member(j, k))
       /\ \A k \in {"prompt_tokens", "completion_tokens", "total_tokens"} :
             FitsInt(Member(j, k))
FitsXGroq(j) ==
    Untouched(j) \/ (j.t = "obj" /\ FitsString(Member(j, "id")))
WellFormed(text) ==
    /\ text.syntax
    /\ \/ text.json.t = "null"
       \/ /\ text.json.t = "obj"
          /\ \A k \in {"id", "object", "model", "system_fingerprint"} :
                FitsString(Member(text.json, k))
          /\ FitsInt(Member(text.json, "created"))
          /\ FitsChoices(Member(text.json, "choices"))
          /\ FitsUsage(Member(text.json, "usage"))
          /\ FitsXGroq(Member(text.json, "x_groq"))

\* The value of member k of an object, or zero when it has none.
StringOf(j, k) ==
    IF j.t = "obj" /\ Member(j, k).t = "str" THEN Member(j, k).v ELSE ""
IntOf(j, k) ==
    IF j.t = "obj" /\ Member(j, k).t = "num" THEN Member(j, k).whole ELSE 0
ArrayOf(j, k) ==
    IF j.t = "obj" /\ Member(j, k).t = "arr" THEN Member(j, k).v ELSE <<>>

SameAsBody(c, j) ==
    /\ c.ID = StringOf(j, "id")
    /\ c.Object = StringOf(j, "object")
    /\ c.Created = IntOf(j, "created")
    /\ c.Model = StringOf(j, "model")
    /\ Len(c.Choices) = Len(ArrayOf(j, "choices"))
    /\ \A i \in 1..Len(c.Choices) :
          LET e == ArrayOf(j, "choices")[i]
          IN  /\ c.Choices[i].FinishReason = StringOf(e, "finish_reason")
              /\ e.t = "obj" =>
                    c.Choices[i].Message.Content
                        = StringOf(Member(e, "message"), "content")

\* C1: a call whose transport answered 200 with a well-formed response body
\* returns a nil error and a non-nil response whose id, object, created,
\* model and choices (in order, with content and finish_reason) are those of
\* the body; a member the body does not have is left zero and is no error.
C1_OkBodyIsReturned ==
    \A p \in Goroutines :
        (GotResponse(p) /\ resp[p].StatusCode = 200
                        /\ WellFormed(resp[p].Body))
        => /\ ret[p].err = NoErr
           /\ ~ret[p].resp.nil
           /\ SameAsBody(ret[p].resp.val, resp[p].Body.json)

C1_Witness ==
    \E p \in Goroutines :
        /\ GotResponse(p) /\ resp[p].StatusCode = 200
        /\ resp[p].Body = JsonText(JObj(With(Without(TestBody, "id"), "choices",
                              JArr(<<JObj(OtherChoice), JObj(TestChoice)>>))))
        /\ ret[p].err = NoErr
        /\ ret[p].resp.val.ID = ""
        /\ ret[p].resp.val.Choices[1].FinishReason = "stop"

\* C2: a call whose transport answered with a status other than 200, other
\* 2xx codes included, returns a nil response and an error carrying that
\* status code, whatever the body is, and the body is never decoded.
C2_Not200Fails ==
    \A p \in Goroutines :
        (GotResponse(p) /\ resp[p].StatusCode # 200)
        => /\ ret[p].resp.nil
           /\ ret[p].err.kind = "status"
           /\ ret[p].err.code = resp[p].StatusCode
           /\ ~decoded[p]
           /\ completion[p] = NoCompletion

C2_Witness ==
    \E p \in Goroutines :
        /\ GotResponse(p) /\ resp[p].StatusCode = 201
        /\ resp[p].Body = JsonText(JObj(TestBody))
        /\ ret[p].err.code = 201

\* C3: on every exit path exactly one of the two results is set: a non-nil
\* response with a nil error, or a nil response with a non-nil error.
C3_NoPartialSuccess ==
    \A p \in Goroutines :
        Returned(p) => (ret[p].resp.nil <=> ret[p].err # NoErr)

\* A decode that failed after it had stored part of the body.
C3_Witness ==
    \E p \in Goroutines :
        /\ Returned(p)
        /\ ret[p].err.kind = "type"
        /\ completion[p].Model = "llama3-8b-8192"
        /\ ret[p].resp.nil

ParseChar(e) ==
    CASE e = "\\\""   -> "\""
      [] e = "\\u003c" -> "<"
      [] e = "\\ufffd" -> "U+FFFD"
      [] OTHER         -> e

ParseString(e) == [i \in 1..Len(e) |-> ParseChar(e[i])]

ParseMessages(em) ==
    [i \in 1..Len(em.array) |->
        Message(ParseString(em.array[i].role), ParseString(em.array[i].content))]

ValidUTF8(str) == \A i \in 1..Len(str) : str[i] # "0xFF"

\* The characters of "llama3-8b-8192".
Llama3_8b_8192 ==
    <<"l", "l", "a", "m", "a", "3", "-", "8", "b", "-", "8", "1", "9", "2">>

\* The argument of the last adjustment of a field in a sequence, or the
\* default when none targets the field.
RECURSIVE LastArg(_, _, _)
LastArg(options, field, default) ==
    IF options = <<>> THEN default
    ELSE LET n == Len(options)
         IN  IF options[n].field = field THEN options[n].arg
             ELSE LastArg(SubSeq(options, 1, n - 1), field, default)

Targets(options) == {options[i].field : i \in 1..Len(options)}

\* C6: once the adjustments have run, every field that no adjustment
\* targets has its default (model "llama3-8b-8192", temperature 1,
\* max_tokens 1024, top_p 1), a targeted field has an argument given for
\* it, and messages, stream and stop are as they were.
C6_OneFieldEach ==
    \A p \in Goroutines :
        pc[p] \notin {"idle", "options", "setkey"} =>
            LET os == given[p].options
                b == body[p]
            IN  /\ "Model" \notin Targets(os) =>
                      b.Model = Llama3_8b_8192
                /\ "Temperature" \notin Targets(os) => b.Temperature = Num(10)
                /\ "MaxTokens" \notin Targets(os) => b.MaxTokens = 1024
                /\ "TopP" \notin Targets(os) => b.TopP = Num(10)
                /\ \A f \in Targets(os) :
                      \E i \in 1..Len(os) :
                          os[i].field = f /\ b[f] = os[i].arg
                /\ b.Messages = given[p].messages
                /\ b.Stream = FALSE
                /\ b.Stop = NoString

C6_Witness ==
    \E p \in Goroutines :
        /\ pc[p] = "marshal"
        /\ given[p].options = <<WithTopP(Num(9))>>
        /\ body[p] = [DefaultBody(TestMessages) EXCEPT !.TopP = Num(9)]

AllValidUTF8(ms) ==
    \A i \in 1..Len(ms.elems) :
        ValidUTF8(ms.elems[i].Role) /\ ValidUTF8(ms.elems[i].Content)

\* What the receiving side reads in the payload is the caller's sequence,
\* and the caller's slice is as it was.
MessagesPreserved(p) ==
    /\ \A i \in 1..Len(sent[p]) :
          ParseMessages(sent[p][i].body.messages) = given[p].messages.elems
    /\ Returned(p) => callerMsgs[p] = given[p].messages

\* C7 as stated: for every message sequence, the messages of the payload
\* have the length, order, roles and contents of the caller's sequence, which
\* the call leaves as it was.
C7_Original ==
    \A p \in Goroutines : MessagesPreserved(p)

\* C7: for every message sequence whose roles and contents are valid UTF-8,
\* the messages of the payload have the length, order, roles and contents of
\* the caller's sequence, which the call leaves as it was.
C7_ValidUTF8Preserved ==
    \A p \in Goroutines : AllValidUTF8(given[p].messages) => MessagesPreserved(p)

C7_Witness ==
    \E p \in Goroutines :
        /\ Returned(p) /\ Len(sent[p]) = 1
        /\ given[p].messages
             = Slice(<<Message(<<"s">>, <<"\"", "<">>),
                       Message(<<"u">>, <<"H", "i">>)>>)
        /\ sent[p][1].body.messages.array[1].content = <<"\\\"", "\\u003c">>
        /\ given[p].options # <<>>

\* C8: NewClient keeps a non-empty key as given and takes the environment's
\* value only for an empty one; while SetAPIKey has not been called, every
\* request carries "Bearer " and that value, whatever the environment has
\* become since.
C8_KeyFixedAtConstruction ==
    LET stored == IF ctor.apiKey # "" THEN ctor.apiKey ELSE ctor.env
    IN  ~setCalled =>
            /\ GoString(client.apiKey) = stored
            /\ \A p \in Goroutines : \A i \in 1..Len(sent[p]) :
                  sent[p][i].authorization = "Bearer " \o stored

C8_Witness ==
    \E p \in Goroutines :
        /\ ~setCalled
        /\ ctor.apiKey = "" /\ ctor.env = "e1" /\ env = "e2"
        /\ Len(sent[p]) = 1
        /\ sent[p][1].authorization = "Bearer e1"

\* C9 as stated: no client field is written while a ChatCompletion call of
\* another goroutine is about to read it, and the client is after a call
\* what it was before it.
C9_Original ==
    \A p \in Goroutines :
        /\ pc[p] = "headers" => \A q \in Goroutines \ {p} : pc[q] # "setkey"
        /\ Returned(p) => client = snapshot[p]

\* C10: a call that got a response from the transport has closed its body
\* exactly once when it returns, whether the status, the decoding or nothing
\* failed; a call that got none closes nothing; nothing is closed twice.
C10_BodyClosedOnce ==
    \A p \in Goroutines :
        /\ closes[p] <= 1
        /\ Returned(p) => closes[p] = (IF resp[p].present THEN 1 ELSE 0)

C10_Witness ==
    \E p \in Goroutines :
        /\ Returned(p) /\ ret[p].err.kind = "syntax" /\ closes[p] = 1

====
